---- MODULE Spec2Model ----
(***************************************************************************)
(* Model of NewsBlurTelegramBot (src/script.py): the scheduler loop of     *)
(* run(), one Run of job() split at its network calls, and the pure        *)
(* helpers (openai_request's parsing, is_article_important,                *)
(* summarize_article, format_telegram_message).                            *)
(*                                                                         *)
(* Texts returned by the language model are sequences of one-character     *)
(* strings, so that str.strip() is computed.  An optional Python value     *)
(* (None or a string) is a sequence of length 0 or 1.                      *)
(***************************************************************************)
EXTENDS Integers, Sequences, FiniteSets, TLC

VARIABLES
    pc,                 \* position of the single thread of run()
    registered,         \* schedule.every(60).minutes.do(self.job) has run
    due,                \* the registered job's next_run time has passed
    overrun,            \* the period elapsed while the current Run was in progress
    active,             \* number of job() invocations started and not yet returned
    articles,           \* value returned by fetch_newsblur_articles in this Run
    idx,                \* index of the story the comprehension is at (1-based)
    important_articles, \* Digest built so far by filter_important_articles
    calls,              \* outbound calls of the current Run, in order, with outcome
    attempts,           \* failures the adapter retried for the latest session request
    runLog              \* log records emitted since "Job started." of the current Run

vars == <<pc, registered, due, overrun, active, articles, idx,
          important_articles, calls, attempts, runLog>>

(***************************************************************************)
(* Bounds                                                                  *)
(***************************************************************************)
MaxStories == 2

(***************************************************************************)
(* Texts                                                                   *)
(***************************************************************************)
Whitespace == {" ", "\n", "\t"}

IMPORTANT == <<"i", "m", "p", "o", "r", "t", "a", "n", "t">>

FALLBACK_SUMMARY == <<"Summary could not be generated.">>

\* Raw message contents the classifier call may come back with.
ClassifierTexts ==
    { IMPORTANT,
      <<" ">> \o IMPORTANT \o <<"\n">>,
      <<"I", "m", "p", "o", "r", "t", "a", "n", "t">>,
      <<"n", "o", "t", " ">> \o IMPORTANT,
      <<>> }

\* Raw message contents the summarizer call may come back with.
SummarizerTexts ==
    { <<"S", "1">>,
      <<" ", "S", "2", "\n">>,
      <<>>,
      <<" ", "\n">> }

\* Outcome of openai.ChatCompletion.create plus the access to
\* response.choices[0].message['content']:
\*   ok           a response whose content is a string
\*   openai_error openai.error.OpenAIError was raised
\*   malformed    a response without choices, or whose content is not a string
LLMOutcome(texts) ==
    [kind : {"ok"}, content : texts]
        \cup { [kind |-> "openai_error", content |-> <<>>],
               [kind |-> "malformed", content |-> <<>>] }

\* Outcome of a request through self.session followed by raise_for_status():
\*   ok           2xx
\*   http_error   4xx/5xx, raise_for_status raises HTTPError
\*   conn_error   ConnectionError after the adapter's retries
HTTPOutcomes == {"ok", "http_error", "conn_error"}

\* a record of `calls`: the operation, the story index it is for (0 for the
\* HTTP calls), the article body handed to the language model, the outcome
HttpCall(op, o) ==
    [op |-> op, i |-> 0, arg |-> <<>>, out |-> [kind |-> o, content |-> <<>>]]
LLMCall(op, i, body, o) == [op |-> op, i |-> i, arg |-> body, out |-> o]
\* the sendMessage POST, with the text of its payload
SendCall(text, o) ==
    [op |-> "sendMessage", i |-> 0, arg |-> text, out |-> [kind |-> o, content |-> <<>>]]

(***************************************************************************)
(* JSON data of the river_stories response                                 *)
(***************************************************************************)
Story(t, c, u) ==
    [isRecord |-> TRUE, story_title |-> t, story_content |-> c, story_permalink |-> u]

\* An element of `stories` that is not a JSON object (a number, a string, a
\* character of a string): it has no .get
NonRecord ==
    [isRecord |-> FALSE, story_title |-> <<>>, story_content |-> <<>>,
     story_permalink |-> <<>>]

StoryPool ==
    { Story(<<"T1">>, <<"B1">>, <<"U1">>),
      Story(<<>>, <<>>, <<>>) }

Elements == StoryPool \cup {NonRecord}

SeqUpTo(S, n) == UNION { [1..k -> S] : k \in 0..n }

JList(items) == [kind |-> "list", n |-> 0, items |-> items]
JNull == [kind |-> "null", n |-> 0, items |-> <<>>]
JNum(k) == [kind |-> "num", n |-> k, items |-> <<>>]
\* a JSON string; iterating it yields one-character strings
JStr(len) == [kind |-> "str", n |-> 0, items |-> [j \in 1..len |-> NonRecord]]

StoriesValues ==
    { JList(s) : s \in SeqUpTo(Elements, MaxStories) }
        \cup { JNull, JNum(0), JNum(5), JStr(0), JStr(1) }

\* Body of a 2xx river_stories response:
\*   not_json    json() raises
\*   non_object  json() returns a value without .get (a list, null, ...)
\*   object      a JSON object, with or without the key 'stories'
Bodies ==
    { [kind |-> "not_json", has_stories |-> FALSE, stories |-> JNull],
      [kind |-> "non_object", has_stories |-> FALSE, stories |-> JNull],
      [kind |-> "object", has_stories |-> FALSE, stories |-> JNull] }
        \cup [kind : {"object"}, has_stories : {TRUE}, stories : StoriesValues]

\* Python truth value of a JSON value
Truthy(v) ==
    CASE v.kind = "null" -> FALSE
      [] v.kind = "num"  -> v.n # 0
      [] OTHER           -> v.items # <<>>

\* dict.get(key, default) on a body: .get('stories', [])
stories_of(body) == IF body.has_stories THEN body.stories ELSE JList(<<>>)

\* story.get(key) / story.get(key, default) on optional fields
get(opt, default) == IF opt = <<>> THEN default ELSE opt

(***************************************************************************)
(* Pure helpers                                                            *)
(***************************************************************************)
RECURSIVE lstrip(_)
lstrip(s) == IF s # <<>> /\ Head(s) \in Whitespace THEN lstrip(Tail(s)) ELSE s

RECURSIVE rstrip(_)
rstrip(s) ==
    IF s # <<>> /\ s[Len(s)] \in Whitespace THEN rstrip(SubSeq(s, 1, Len(s) - 1)) ELSE s

strip(s) == rstrip(lstrip(s))

\* openai_request on an outcome that does not raise past it: the stripped
\* content, or None (<<>>) on OpenAIError.  A present text t is <<t>>.
openai_request(o) ==
    IF o.kind = "ok" THEN <<strip(o.content)>> ELSE <<>>

\* the exceptions openai_request does not catch
openai_request_raises(o) == o.kind = "malformed"

\* Python truth value of an optional text
TruthyText(r) == r # <<>> /\ r[1] # <<>>

\* a comparison that ignores the case of the first letter
is_article_important_nocase(result) ==
    IF TruthyText(result)
    THEN result[1] \in {IMPORTANT, <<"I", "m", "p", "o", "r", "t", "a", "n", "t">>}
    ELSE FALSE

\* a classifier that fails open
is_article_important_fail_open(result) ==
    IF TruthyText(result) THEN result[1] = IMPORTANT ELSE TRUE

is_article_important(result) ==
    IF TruthyText(result) THEN result[1] = IMPORTANT ELSE FALSE

\* a fallback for None only
summarize_article_none_only(summary) ==
    IF summary # <<>> THEN summary[1] ELSE FALLBACK_SUMMARY

summarize_article(summary) ==
    IF TruthyText(summary) THEN summary[1] ELSE FALLBACK_SUMMARY

\* str() of an optional field inside the f-string: None renders as "None"
render(opt) == IF opt = <<>> THEN <<"None">> ELSE opt

HEADER == <<"<b>New Important Articles:</b>\n\n">>

\* one title/summary block of the template (the pictographs of the source
\* template are left out of the literals)
block(article) ==
    <<"<b>Title:</b> <a href=\"">> \o render(article.url) \o <<"\">">>
        \o render(article.title)
        \o <<"</a>\n<b>Summary:</b> ">> \o article.summary \o <<"\n\n">>

\* a join that stops after the first entry
join_blocks_first_only(as) == IF as = <<>> THEN <<>> ELSE block(Head(as))

RECURSIVE join_blocks(_)
join_blocks(as) ==
    IF as = <<>> THEN <<>> ELSE block(Head(as)) \o join_blocks(Tail(as))

\* a formatter without the empty-Digest case
format_telegram_message_always(as) == <<HEADER \o join_blocks(as)>>

\* None is <<>>, a message m is <<m>>
format_telegram_message(as) ==
    IF as = <<>> THEN <<>> ELSE <<HEADER \o join_blocks(as)>>

(***************************************************************************)
(* Logging                                                                 *)
(***************************************************************************)
L(level, msg) == [level |-> level, msg |-> msg]

NO_NEW == L("INFO", "No new articles found.")
LOGIN_FAILED == L("ERROR", "Failed to login to NewsBlur")
FETCH_FAILED == L("ERROR", "Failed to fetch stories")
OPENAI_FAILED == L("ERROR", "Error during OpenAI request")
JOB_COMPLETED == L("DEBUG", "Job completed.")

DELIVERY_FAILED ==
    << L("ERROR", "Failed to send message to Telegram"),
       L("ERROR", "Payload used"),
       L("ERROR", "Telegram API URL"),
       L("ERROR", "Make sure TELE_TOKEN and TELE_CHAT are correct") >>

\* the error record openai_request logs when it catches OpenAIError
openai_log(o) == IF o.kind = "openai_error" THEN <<OPENAI_FAILED>> ELSE <<>>

(***************************************************************************)
(* Positions                                                               *)
(***************************************************************************)
JobPcs == {"login", "river_stories", "classify", "summarize", "send"}

\* a run() that starts with the registration
Init_without_first_run ==
    /\ pc = "register"
    /\ registered = FALSE
    /\ due = FALSE
    /\ overrun = FALSE
    /\ active = 0
    /\ articles = JList(<<>>)
    /\ idx = 0
    /\ important_articles = <<>>
    /\ calls = <<>>
    /\ attempts = <<>>
    /\ runLog = <<>>

Init ==
    /\ pc = "run_entry"
    /\ registered = FALSE
    /\ due = FALSE
    /\ overrun = FALSE
    /\ active = 0
    /\ articles = JList(<<>>)
    /\ idx = 0
    /\ important_articles = <<>>
    /\ calls = <<>>
    /\ attempts = <<>>
    /\ runLog = <<>>

\* job() returns to run(): to the registration after the immediate Run, to
\* the loop after a scheduled one (the job is then rescheduled one period
\* after the end of the Run)
job_returns(log) ==
    /\ pc' = IF registered THEN "loop" ELSE "register"
    /\ active' = active - 1
    /\ due' = FALSE
    /\ runLog' = log

\* an exception nobody catches leaves job() and run(): the process ends
uncaught(log) ==
    /\ pc' = "terminated"
    /\ runLog' = log
    /\ UNCHANGED <<active, due>>

\* a Digest kept on the object and never emptied
job_starts_keeping_digest ==
    /\ pc' = "login"
    /\ active' = active + 1
    /\ overrun' = FALSE
    /\ articles' = JList(<<>>)
    /\ idx' = 0
    /\ calls' = <<>>
    /\ attempts' = <<>>
    /\ runLog' = <<L("DEBUG", "Job started.")>>
    /\ UNCHANGED <<registered, due, important_articles>>

job_starts ==
    /\ pc' = "login"
    /\ active' = active + 1
    /\ overrun' = FALSE
    /\ articles' = JList(<<>>)
    /\ idx' = 0
    /\ important_articles' = <<>>
    /\ calls' = <<>>
    /\ attempts' = <<>>
    /\ runLog' = <<L("DEBUG", "Job started.")>>
    /\ UNCHANGED <<registered, due>>

\* run(): self.job() before anything is scheduled
run_immediately ==
    /\ pc = "run_entry"
    /\ job_starts

\* run(): schedule.every(60).minutes.do(self.job)
register_job ==
    /\ pc = "register"
    /\ pc' = "loop"
    /\ registered' = TRUE
    /\ due' = FALSE
    /\ runLog' = Append(runLog, L("INFO", "Scheduler started."))
    /\ UNCHANGED <<overrun, active, articles, idx, important_articles, calls,
                   attempts>>

\* a timer thread that fires whenever the job is due
scheduled_run_due_any_time == due /\ pc # "terminated"

\* the loop calls run_pending between two sleeps, never inside a job
scheduled_run_due == pc = "loop" /\ due

\* run(): while True: schedule.run_pending() with the job due
run_pending ==
    /\ scheduled_run_due
    /\ job_starts

\* time: one period goes by
period_elapses ==
    /\ pc # "terminated"
    /\ \/ pc \in JobPcs /\ ~overrun
       \/ registered /\ ~due
    /\ overrun' = IF pc \in JobPcs THEN TRUE ELSE overrun
    /\ due' = IF registered THEN TRUE ELSE due
    /\ UNCHANGED <<pc, registered, active, articles, idx, important_articles,
                   calls, attempts, runLog>>

\* the login POST came back and raise_for_status() did not raise
login_no_status_check(o) == o # "conn_error"

login_succeeds(o) == o = "ok"

\* the river_stories GET came back and raise_for_status() did not raise
stories_no_status_check(o) == o # "conn_error"

stories_fetched(o) == o = "ok"

\* fetch_newsblur_articles up to the login POST, and job() when it fails
login(o) ==
    /\ pc = "login"
    /\ calls' = Append(calls, HttpCall("login", o))
    /\ LET log1 == Append(runLog, L("DEBUG", "Starting to fetch NewsBlur articles..."))
       IN  IF login_succeeds(o)
           THEN /\ pc' = "river_stories"
                /\ attempts' = <<>>
                /\ runLog' = Append(log1, L("DEBUG", "Logged into NewsBlur successfully."))
                /\ UNCHANGED <<active, due, articles>>
           ELSE /\ articles' = JList(<<>>)
                /\ attempts' = attempts
                /\ job_returns(log1 \o <<LOGIN_FAILED, NO_NEW>>)
    /\ UNCHANGED <<registered, overrun, idx, important_articles>>

\* fetch_newsblur_articles from the river_stories GET on, and job() up to
\* the start of the comprehension of filter_important_articles
river_stories(o, body) ==
    /\ pc = "river_stories"
    /\ calls' = Append(calls, HttpCall("river_stories", o))
    /\ IF ~stories_fetched(o)
       THEN /\ articles' = JList(<<>>)
            /\ idx' = idx
            /\ job_returns(runLog \o <<FETCH_FAILED, NO_NEW>>)
       ELSE LET log1 == Append(runLog, L("DEBUG", "Fetched stories successfully."))
                log2 == Append(log1, L("DEBUG", "Filtering important articles..."))
            IN  IF body.kind # "object"
                THEN \* json() raises, or the value has no .get
                     /\ uncaught(log1)
                     /\ UNCHANGED <<articles, idx>>
                ELSE /\ articles' = stories_of(body)
                     /\ IF ~Truthy(stories_of(body))
                        THEN /\ idx' = idx
                             /\ job_returns(Append(log1, NO_NEW))
                        ELSE IF stories_of(body).kind = "num"
                        THEN \* for story in stories: not iterable
                             /\ idx' = idx
                             /\ uncaught(log2)
                        ELSE /\ idx' = 1
                             /\ pc' = "classify"
                             /\ runLog' = log2
                             /\ UNCHANGED <<active, due>>
    /\ UNCHANGED <<registered, overrun, important_articles, attempts>>

\* a comprehension followed by the slice [:4]
next_story_capped(log, d) ==
    /\ important_articles' = IF Len(d) > 4 THEN SubSeq(d, 1, 4) ELSE d
    /\ idx' = idx + 1
    /\ IF idx < Len(articles.items)
       THEN /\ pc' = "classify"
            /\ runLog' = log
            /\ UNCHANGED <<active, due>>
       ELSE LET log1 == Append(log, L("DEBUG", "Found important articles."))
            IN  IF d # <<>>
                THEN /\ pc' = "send"
                     /\ runLog' = log1
                     /\ UNCHANGED <<active, due>>
                ELSE job_returns(log1 \o <<L("INFO", "No important articles found."),
                                           JOB_COMPLETED>>)
    /\ attempts' = IF idx < Len(articles.items) \/ d = <<>> THEN attempts ELSE <<>>

\* a loop that sends as soon as the Digest has an entry
next_story_sends_early(log, d) ==
    /\ important_articles' = d
    /\ idx' = idx + 1
    /\ IF d # <<>>
       THEN /\ pc' = "send"
            /\ runLog' = log
            /\ UNCHANGED <<active, due>>
       ELSE IF idx < Len(articles.items)
       THEN /\ pc' = "classify"
            /\ runLog' = log
            /\ UNCHANGED <<active, due>>
       ELSE job_returns(log \o <<L("INFO", "No important articles found."),
                                 JOB_COMPLETED>>)
    /\ attempts' = IF d = <<>> THEN attempts ELSE <<>>

\* the comprehension moves past story idx with Digest d: to the next story,
\* or out of filter_important_articles and on in job()
next_story(log, d) ==
    /\ important_articles' = d
    /\ idx' = idx + 1
    /\ IF idx < Len(articles.items)
       THEN /\ pc' = "classify"
            /\ runLog' = log
            /\ UNCHANGED <<active, due>>
       ELSE LET log1 == Append(log, L("DEBUG", "Found important articles."))
            IN  IF d # <<>>
                THEN /\ pc' = "send"
                     /\ runLog' = log1
                     /\ UNCHANGED <<active, due>>
                ELSE job_returns(log1 \o <<L("INFO", "No important articles found."),
                                           JOB_COMPLETED>>)
    \* the POST of send_telegram_message is the next session request
    /\ attempts' = IF idx < Len(articles.items) \/ d = <<>> THEN attempts ELSE <<>>

\* for story in reversed(stories)
story_at_reversed(items, i) == items[Len(items) + 1 - i]

\* the story the comprehension is at
story_at(items, i) == items[i]

\* story.get on an element of `stories` that is not a record
story_get_fails ==
    /\ pc = "classify"
    /\ ~story_at(articles.items, idx).isRecord
    /\ uncaught(runLog)
    /\ UNCHANGED <<registered, overrun, articles, idx, important_articles, calls,
                   attempts>>

\* is_article_important(story.get('story_content', '')) for story idx
classify(o) ==
    /\ pc = "classify"
    /\ story_at(articles.items, idx).isRecord
    /\ LET story == story_at(articles.items, idx)
           log1 == Append(runLog,
                     L("DEBUG", "Checking if the article is important using GPT-4..."))
           log2 == Append(log1 \o openai_log(o), L("DEBUG", "GPT-4 response for importance"))
       IN  /\ calls' = Append(calls,
                          LLMCall("classify", idx, get(story.story_content, <<"">>), o))
           /\ IF openai_request_raises(o)
              THEN /\ uncaught(log1)
                   /\ UNCHANGED <<idx, important_articles, attempts>>
              ELSE IF is_article_important(openai_request(o))
              THEN /\ pc' = "summarize"
                   /\ runLog' = log2
                   /\ UNCHANGED <<active, due, idx, important_articles, attempts>>
              ELSE next_story(log2, important_articles)
    /\ UNCHANGED <<registered, overrun, articles>>

\* the dict of the comprehension for story idx, with its summarize_article call
summarize(o) ==
    /\ pc = "summarize"
    /\ LET story == story_at(articles.items, idx)
           log1 == Append(runLog,
                     L("DEBUG", "Generating summary for the article using GPT-4..."))
           log2 == Append(log1 \o openai_log(o), L("DEBUG", "GPT-4 summary"))
           entry == [title   |-> get(story.story_title, <<>>),
                     summary |-> summarize_article(openai_request(o)),
                     url     |-> get(story.story_permalink, <<>>)]
       IN  /\ calls' = Append(calls,
                          LLMCall("summarize", idx, get(story.story_content, <<"">>), o))
           /\ IF openai_request_raises(o)
              THEN /\ uncaught(log1)
                   /\ UNCHANGED <<idx, important_articles, attempts>>
              ELSE next_story(log2, Append(important_articles, entry))
    /\ UNCHANGED <<registered, overrun, articles>>

\* Python truth value of format_telegram_message's result
TruthyMessage(m) == m # <<>> /\ m[1] # <<>>

\* the calls send_telegram_message(as) makes when the POST comes back with o
send_telegram_message_calls(as, o) ==
    IF TruthyMessage(format_telegram_message(as))
    THEN <<SendCall(format_telegram_message(as)[1], o)>>
    ELSE <<>>

\* the records send_telegram_message(as) logs when the POST comes back with o
send_telegram_message_log(as, o) ==
    IF ~TruthyMessage(format_telegram_message(as))
    THEN <<L("INFO", "No important articles to send.")>>
    ELSE IF o = "ok"
    THEN <<L("INFO", "Message sent to Telegram successfully")>>
    ELSE DELIVERY_FAILED

\* a handler for connection failures only
caught_connection_only(o) == o = "conn_error"

\* the failures of the POST that `except requests.RequestException` catches
caught_by_send(o) == o \in {"http_error", "conn_error"}

\* job(): send_telegram_message(important_articles) and the end of the Run
send(o) ==
    /\ pc = "send"
    /\ calls' = calls \o send_telegram_message_calls(important_articles, o)
    /\ IF /\ send_telegram_message_calls(important_articles, o) # <<>>
          /\ o # "ok"
          /\ ~caught_by_send(o)
       THEN uncaught(runLog)
       ELSE job_returns(runLog \o send_telegram_message_log(important_articles, o)
                               \o <<JOB_COMPLETED>>)
    /\ UNCHANGED <<registered, overrun, articles, idx, important_articles, attempts>>

Next ==
    \/ run_immediately
    \/ register_job
    \/ run_pending
    \/ period_elapses
    \/ \E o \in HTTPOutcomes : login(o)
    \/ \E o \in HTTPOutcomes, body \in Bodies : river_stories(o, body)
    \/ story_get_fails
    \/ \E o \in LLMOutcome(ClassifierTexts) : classify(o)
    \/ \E o \in LLMOutcome(SummarizerTexts) : summarize(o)
    \/ \E o \in HTTPOutcomes : send(o)

Spec == Init /\ [][Next]_vars

\* the thread keeps executing and time keeps passing
FairSpec == Spec /\ WF_vars(Next)

(***************************************************************************)
(* The session's adapter made explicit: Retry(connect=3, backoff_factor=   *)
(* 0.5) mounted for http:// and https://.  In Spec a request is one step   *)
(* and conn_error stands for a failure the adapter gave up on; here every  *)
(* failed attempt is a step.  Runs are over batches of well-formed stories.*)
(***************************************************************************)
MaxBatch == 6

CONNECT_RETRIES == 3

\* what can go wrong with one attempt of a request: no connection, or a
\* response with a 4xx/5xx status
TransportFailures == {"connect", "status"}

\* a Retry with a status_forcelist
retried_on_status_too(failure) == failure \in {"connect", "status"}

\* the failures Retry(connect=3) retries
retried(failure) == failure = "connect"

SessionPcs == {"login", "river_stories", "send"}

\* the adapter sleeps the backoff and sends the request again
adapter_retries(failure) ==
    /\ pc \in SessionPcs
    /\ retried(failure)
    /\ Len(attempts) < CONNECT_RETRIES
    /\ attempts' = Append(attempts, failure)
    /\ UNCHANGED <<pc, registered, due, overrun, active, articles, idx,
                   important_articles, calls, runLog>>

\* the outcome o reaches the caller of the session: a connection failure
\* only once the retries are used up
surfaces(o) == o = "conn_error" => Len(attempts) = CONNECT_RETRIES

BatchStory == Story(<<"T1">>, <<"B1">>, <<"U1">>)

BatchBodies ==
    { [kind |-> "object", has_stories |-> TRUE,
       stories |-> JList([j \in 1..n |-> BatchStory])] : n \in 0..MaxBatch }

BatchClassifier ==
    { [kind |-> "ok", content |-> IMPORTANT],
      [kind |-> "ok", content |-> <<"n", "o", "t", " ">> \o IMPORTANT] }

BatchSummarizer == { [kind |-> "ok", content |-> <<"S", "1">>] }

\* the three session requests, answered through the adapter
session_login(o) ==
    /\ surfaces(o)
    /\ login(o)

session_river_stories(o, body) ==
    /\ surfaces(o)
    /\ river_stories(o, body)

session_send(o) ==
    /\ surfaces(o)
    /\ send(o)

WireNext ==
    \/ run_immediately
    \/ register_job
    \/ run_pending
    \/ period_elapses
    \/ \E f \in TransportFailures : adapter_retries(f)
    \/ \E o \in HTTPOutcomes : session_login(o)
    \/ \E o \in HTTPOutcomes, body \in BatchBodies : session_river_stories(o, body)
    \/ \E o \in BatchClassifier : classify(o)
    \/ \E o \in BatchSummarizer : summarize(o)
    \/ \E o \in HTTPOutcomes : session_send(o)

WireSpec == Init /\ [][WireNext]_vars
(***************************************************************************)
(* Vocabulary of the properties.  The sets below are written out, not      *)
(* computed with strip, so that they are independent of the model of the   *)
(* code.                                                                   *)
(***************************************************************************)
\* a job() invocation has returned to run() and no other has started since
RunReturned == pc \in {"register", "loop"}

CallsOf(op) == SelectSeq(calls, LAMBDA c : c.op = op)

\* the raw answers whose trimmed text is "important"
TrimsToImportant == { IMPORTANT, <<" ">> \o IMPORTANT \o <<"\n">> }

\* the raw answers whose trimmed text is empty
BlankTexts == { <<>>, <<" ", "\n">> }

\* the classifier call of story k came back with "important"
ClassifiedImportant(k) ==
    \E j \in 1..Len(calls) :
        /\ calls[j].op = "classify"
        /\ calls[j].i = k
        /\ calls[j].out.kind = "ok"
        /\ calls[j].out.content \in TrimsToImportant

\* number of stories the comprehension has moved past
Processed == IF idx = 0 THEN 0 ELSE idx - 1

RECURSIVE ExpectedKeys(_)
ExpectedKeys(k) ==
    IF k = 0 THEN <<>>
    ELSE ExpectedKeys(k - 1) \o
         (IF ClassifiedImportant(k)
          THEN << <<articles.items[k].story_title, articles.items[k].story_permalink>> >>
          ELSE <<>>)

DigestKeys ==
    [j \in 1..Len(important_articles) |->
        <<important_articles[j].title, important_articles[j].url>>]

ErrorsLogged == SelectSeq(runLog, LAMBDA r : r.level = "ERROR")

Logged(r) == \E j \in 1..Len(runLog) : runLog[j] = r

LastCall == calls[Len(calls)]

\* C1: the Digest is exactly the stories, in feed order, whose classifier
\* answer trims to "important"; any other answer, an empty one or a service
\* error keeps the story out.
C1_DigestIsImportantSubsequence == DigestKeys = ExpectedKeys(Processed)

C1_Witness ==
    /\ RunReturned
    /\ Len(articles.items) = 2
    /\ Len(important_articles) = 1
    /\ \E j \in 1..Len(calls) :
          /\ calls[j].op = "classify"
          /\ calls[j].out.kind = "ok"
          /\ calls[j].out.content = <<" ">> \o IMPORTANT \o <<"\n">>
    /\ \E j \in 1..Len(calls) :
          /\ calls[j].op = "classify"
          /\ calls[j].out.kind = "openai_error"

\* C2: no error is fatal to the process: whatever happens in a Run, run()
\* is never left and the loop goes on.
C2_NoErrorIsFatal == pc # "terminated"

\* C3: a POST to the chat endpoint is issued only for a non-empty Digest;
\* format_telegram_message gives None for the empty Digest and
\* send_telegram_message then makes no call; a Run whose articles are all
\* classified not important sends nothing.
C3_NoEmptyNotification ==
    /\ CallsOf("sendMessage") # <<>> => important_articles # <<>>
    /\ important_articles = <<>> =>
          /\ format_telegram_message(important_articles) = <<>>
          /\ \A o \in HTTPOutcomes :
                send_telegram_message_calls(important_articles, o) = <<>>
    /\ important_articles # <<>> =>
          format_telegram_message(important_articles) # <<>>
    /\ (RunReturned /\ \A k \in 1..Processed : ~ClassifiedImportant(k))
          => CallsOf("sendMessage") = <<>>

C3_Witness ==
    /\ RunReturned
    /\ Len(articles.items) = 2
    /\ Len(CallsOf("classify")) = 2
    /\ important_articles = <<>>
    /\ CallsOf("sendMessage") = <<>>

LoginFailed == calls # <<>> /\ calls[1].op = "login" /\ calls[1].out.kind # "ok"

\* C4: when the login fails (HTTP 401 or otherwise) the Run ends with an
\* empty Digest, makes no classify, summarize or deliver call (nor any
\* other), and logs exactly one error record, the login failure.
C4_LoginFailureAbortsRun ==
    LoginFailed =>
        /\ RunReturned
        /\ important_articles = <<>>
        /\ Len(calls) = 1
        /\ ErrorsLogged = <<LOGIN_FAILED>>

C4_Witness ==
    /\ RunReturned
    /\ calls = <<HttpCall("login", "http_error")>>
    /\ registered

FetchFailed ==
    /\ Len(calls) >= 2
    /\ calls[2].op = "river_stories"
    /\ calls[2].out.kind # "ok"

\* C5 as stated: a failure of the river_stories fetch gives an outcome that
\* differs from the outcome of an empty feed.
C5_FetchFailedDistinctFromEmpty == FetchFailed => articles # JList(<<>>)

\* C5 amended: a failure of the river_stories fetch logs one error record
\* and returns the same empty list as an empty feed, job() reports "No new
\* articles found." as for an empty feed, and the Run ends without any
\* classify, summarize or deliver call.
C5_FetchFailureAbortsRun ==
    FetchFailed =>
        /\ RunReturned
        /\ articles = JList(<<>>)
        /\ important_articles = <<>>
        /\ Len(calls) = 2
        /\ ErrorsLogged = <<FETCH_FAILED>>
        /\ Logged(NO_NEW)

C5_Witness ==
    /\ RunReturned
    /\ Len(calls) = 2
    /\ calls[2] = HttpCall("river_stories", "http_error")

\* the summarizer call came back with a service error or an empty text
SummaryFailed(c) ==
    /\ c.op = "summarize"
    /\ \/ c.out.kind = "openai_error"
       \/ c.out.kind = "ok" /\ c.out.content \in BlankTexts

\* position in the Digest of the entry of story k
DigestPosition(k) == Cardinality({ m \in 1..k : ClassifiedImportant(m) })

\* C6: when the summarizer call of an important story fails or comes back
\* empty, the story is in the Digest at its feed-order position with the
\* fixed fallback summary, and the comprehension goes on to the stories
\* after it.
C6_SummaryFallback ==
    \A j \in 1..Len(calls) :
        SummaryFailed(calls[j]) =>
            LET k == calls[j].i
                p == DigestPosition(k)
            IN  /\ idx > k
                /\ p >= 1
                /\ Len(important_articles) >= p
                /\ important_articles[p].summary = <<"Summary could not be generated.">>
                /\ important_articles[p].title = articles.items[k].story_title
                /\ important_articles[p].url = articles.items[k].story_permalink
                /\ RunReturned => Len(CallsOf("classify")) = Len(articles.items)

C6_Witness ==
    /\ RunReturned
    /\ Len(articles.items) = 2
    /\ Len(calls) >= 5
    /\ SummaryFailed(calls[4])
    /\ calls[4].i = 1
    /\ calls[4].out.kind = "ok"
    /\ calls[5].op = "classify"
    /\ calls[5].i = 2

DeliveryFailed500 ==
    /\ calls # <<>>
    /\ LastCall.op = "sendMessage"
    /\ LastCall.out.kind = "http_error"

\* C7: a delivery that comes back with HTTP 500 is caught and logged inside
\* send_telegram_message, the Run completes and returns to run(), and the
\* loop later starts another Run.
C7_DeliveryFailureSurvived ==
    /\ [](DeliveryFailed500 =>
            /\ pc # "terminated"
            /\ important_articles # <<>>
            /\ ErrorsLogged # <<>>
            /\ SubSeq(ErrorsLogged, Len(ErrorsLogged) - 3, Len(ErrorsLogged))
                  = DELIVERY_FAILED
            /\ Logged(JOB_COMPLETED))
    /\ ((DeliveryFailed500 /\ RunReturned) ~> (pc = "login"))

C7_Witness ==
    /\ DeliveryFailed500
    /\ RunReturned
    /\ registered

EmptyFeed ==
    /\ Len(calls) >= 2
    /\ calls[2] = HttpCall("river_stories", "ok")
    /\ pc # "terminated"
    /\ articles = JList(<<>>)

\* C8: a feed response that yields an empty article sequence gives an empty
\* Digest and a Run without classify, summarize or notification call.
C8_EmptyFeedNoEffects ==
    EmptyFeed =>
        /\ RunReturned
        /\ important_articles = <<>>
        /\ Len(calls) = 2

C8_Witness ==
    /\ EmptyFeed
    /\ RunReturned
    /\ registered
    /\ due

\* C9: at most one Run is in progress; a Run starts only when none is in
\* progress, from the entry of run() or from the idle loop; a Run that
\* outlasts the period is not joined by a second one.
C9_RunsNeverOverlap ==
    /\ [](/\ active \in {0, 1}
          /\ pc \in JobPcs => active = 1
          /\ RunReturned => active = 0)
    /\ [][active' > active =>
            /\ active = 0
            /\ pc \in {"run_entry", "loop"}
            /\ pc = "loop" => due]_vars
    /\ [][(pc \in JobPcs /\ overrun) => active' <= active]_vars

C9_Witness ==
    /\ pc \in JobPcs
    /\ registered
    /\ due
    /\ overrun
    /\ active = 1

\* the `stories` value is not a list of story records
MalformedStories ==
    /\ Len(calls) >= 2
    /\ calls[2] = HttpCall("river_stories", "ok")
    /\ \/ articles.kind # "list"
       \/ \E j \in 1..Len(articles.items) : ~articles.items[j].isRecord

\* C10: a malformed `stories` field is taken as an empty article sequence:
\* no error leaves the Run and no classify, summarize or deliver call is
\* made.
C10_MalformedStoriesIsEmpty ==
    MalformedStories =>
        /\ pc # "terminated"
        /\ Len(calls) = 2

(***************************************************************************)
(* Vocabulary of the properties about fields, call counts, call order and  *)
(* the rendered message.  The template and the trimmed texts are written   *)
(* out here, apart from the model of the code.                             *)
(***************************************************************************)
LLMOps == {"classify", "summarize"}

\* the language-model calls of the Run, in order
LLMCalls == SelectSeq(calls, LAMBDA c : c.op \in LLMOps)

Count(op, k) ==
    Cardinality({ j \in 1..Len(calls) : calls[j].op = op /\ calls[j].i = k })

ImportantStories(n) == { k \in 1..n : ClassifiedImportant(k) }

\* the summarizer call of story k
SummaryCall(k) ==
    calls[CHOOSE j \in 1..Len(calls) : calls[j].op = "summarize" /\ calls[j].i = k]

\* the summary the answer c stands for
ExpectedSummary(c) ==
    CASE c.out.kind = "ok" /\ c.out.content = <<"S", "1">> -> <<"S", "1">>
      [] c.out.kind = "ok" /\ c.out.content = <<" ", "S", "2", "\n">> -> <<"S", "2">>
      [] OTHER -> <<"Summary could not be generated.">>

RECURSIVE ExpectedDigest(_)
ExpectedDigest(k) ==
    IF k = 0 THEN <<>>
    ELSE ExpectedDigest(k - 1) \o
         (IF ClassifiedImportant(k)
          THEN << [title   |-> articles.items[k].story_title,
                   summary |-> ExpectedSummary(SummaryCall(k)),
                   url     |-> articles.items[k].story_permalink] >>
          ELSE <<>>)

TITLE_OPEN == "<b>Title:</b> <a href=\""

Shown(opt) == IF opt = <<>> THEN <<"None">> ELSE opt

RECURSIVE ExpectedBlocks(_)
ExpectedBlocks(d) ==
    IF d = <<>> THEN <<>>
    ELSE <<TITLE_OPEN>> \o Shown(d[1].url) \o <<"\">">> \o Shown(d[1].title)
            \o <<"</a>\n<b>Summary:</b> ">> \o d[1].summary \o <<"\n\n">>
            \o ExpectedBlocks(Tail(d))

ExpectedMessage(d) == <<"<b>New Important Articles:</b>\n\n">> \o ExpectedBlocks(d)

\* number of title/summary blocks of a message
BlockCount(m) == Cardinality({ j \in 1..Len(m) : m[j] = TITLE_OPEN })

\* the Run that has returned was started by the loop, not by the entry of run()
ScheduledRunReturned ==
    /\ pc = "loop"
    /\ ~Logged(L("INFO", "Scheduler started."))

\* C11: a field missing from a story record is the empty string in what is
\* handed to classify and summarize and in the title and url of the Digest
\* Entry.
C11_MissingFieldsAreEmptyStrings ==
    /\ \A j \in 1..Len(calls) :
          (calls[j].op \in LLMOps /\ articles.items[calls[j].i].story_content = <<>>)
              => calls[j].arg = <<"">>
    /\ \A k \in 1..Processed :
          ClassifiedImportant(k) =>
              LET e == important_articles[DigestPosition(k)]
              IN  /\ articles.items[k].story_title = <<>> => e.title = <<"">>
                  /\ articles.items[k].story_permalink = <<>> => e.url = <<"">>

\* C12: every fetched story is classified exactly once, summarized exactly
\* once when its verdict is true and never otherwise, and at most one
\* notification POST is made; the counts are fixed by the stories and the
\* classifier answers.
C12_CallCounts ==
    /\ \A k \in 1..Len(articles.items) :
          /\ Count("classify", k) <= 1
          /\ Count("summarize", k) <= 1
          /\ Count("summarize", k) = 1 =>
                (Count("classify", k) = 1 /\ ClassifiedImportant(k))
          /\ k <= Processed =>
                /\ Count("classify", k) = 1
                /\ Count("summarize", k) = IF ClassifiedImportant(k) THEN 1 ELSE 0
          /\ k > idx => Count("classify", k) = 0
    /\ Len(CallsOf("classify")) + Len(CallsOf("summarize")) = Len(LLMCalls)
    /\ \A j \in 1..Len(LLMCalls) : LLMCalls[j].i \in 1..Len(articles.items)
    /\ Len(CallsOf("sendMessage")) <= 1
    /\ RunReturned =>
          /\ Processed \in {0, Len(articles.items)}
          /\ Len(CallsOf("classify")) = Processed
          /\ Len(CallsOf("summarize")) = Cardinality(ImportantStories(Processed))
          /\ Len(CallsOf("sendMessage")) =
                IF ImportantStories(Processed) # {} THEN 1 ELSE 0

C12_Witness ==
    /\ RunReturned
    /\ Len(articles.items) = 2
    /\ Len(CallsOf("classify")) = 2
    /\ Len(CallsOf("summarize")) = 1
    /\ Len(CallsOf("sendMessage")) = 1
    /\ ClassifiedImportant(2)

\* C13: run() executes one Run at once, before the job is registered and
\* before any wait; afterwards the loop starts a Run only when the period
\* has elapsed, one Run per elapse, and is back in its wait only when that
\* Run has returned.
C13_ImmediateThenPeriodic ==
    /\ [](/\ pc = "register" => (calls # <<>> /\ ~registered)
          /\ ~registered => ~due
          /\ pc = "run_entry" => (calls = <<>> /\ ~registered))
    /\ [][pc = "run_entry" => (pc' = "login" /\ ~registered')]_vars
    /\ [][registered' # registered => (pc = "register" /\ active = 0)]_vars
    /\ [][(pc = "loop" /\ pc' # "loop") => (due /\ pc' = "login" /\ active' = 1)]_vars
    /\ [][(pc \in JobPcs /\ pc' = "loop") => (~due' /\ active' = 0)]_vars
    /\ ((pc = "loop" /\ due) ~> (pc = "login"))
    /\ ((pc = "run_entry") ~> (pc = "login"))

C13_Witness ==
    /\ ScheduledRunReturned
    /\ Logged(JOB_COMPLETED)
    /\ ~due

\* C14: the Digest and the message of a Run are fixed by the stories it
\* fetched and by the classifier and summarizer answers it got, whatever
\* earlier Runs did.
C14_RunIsFunctionOfItsInputs ==
    /\ important_articles = ExpectedDigest(Processed)
    /\ \A j \in 1..Len(calls) :
          calls[j].op = "sendMessage" =>
              calls[j].arg = ExpectedMessage(ExpectedDigest(Len(articles.items)))

C14_Witness ==
    /\ ScheduledRunReturned
    /\ Len(important_articles) = 2
    /\ important_articles[1].summary = <<"S", "2">>
    /\ LastCall.op = "sendMessage"

SessionOps == {"login", "river_stories", "sendMessage"}

LastSessionCall ==
    LET sc == SelectSeq(calls, LAMBDA c : c.op \in SessionOps) IN sc[Len(sc)]

BodyOf(k) ==
    IF articles.items[k].story_content = <<>>
    THEN <<"">>
    ELSE articles.items[k].story_content

\* C17: the language-model calls of a Run come one story at a time in feed
\* order: classify of story 1, its summarize when it is important, then
\* classify of story 2, and so on; a summarize directly follows the classify
\* of the same story, which came back important.
C17_SequentialPairs ==
    LET M == LLMCalls
    IN  /\ \A a, b \in 1..Len(M) : a < b => M[a].i <= M[b].i
        /\ \A b \in 1..Len(M) :
              /\ M[b].arg = BodyOf(M[b].i)
              /\ M[b].op = "classify" =>
                    M[b].i = 1 + Cardinality({ a \in 1..(b - 1) : M[a].op = "classify" })
              /\ M[b].op = "summarize" =>
                    /\ b > 1
                    /\ M[b - 1].op = "classify"
                    /\ M[b - 1].i = M[b].i
                    /\ M[b - 1].out.kind = "ok"
                    /\ M[b - 1].out.content \in TrimsToImportant
              /\ (/\ M[b].op = "classify"
                  /\ M[b].out.kind = "ok"
                  /\ M[b].out.content \in TrimsToImportant
                  /\ b < Len(M)) => M[b + 1].op = "summarize"

C17_Witness ==
    /\ RunReturned
    /\ Len(LLMCalls) = 4
    /\ articles.items[1] # articles.items[2]
    /\ LLMCalls[3].op = "classify"
    /\ LLMCalls[3].i = 2

\* C18: the message of a non-empty Digest is the header followed by one
\* title/summary block per entry, in Digest order, each with the url, title
\* and summary of its entry.
C18_MessageLayout ==
    /\ important_articles # <<>> =>
          /\ format_telegram_message(important_articles)
                = <<ExpectedMessage(important_articles)>>
          /\ BlockCount(format_telegram_message(important_articles)[1])
                = Len(important_articles)
    /\ \A j \in 1..Len(calls) :
          calls[j].op = "sendMessage" =>
              /\ calls[j].arg[1] = "<b>New Important Articles:</b>\n\n"
              /\ calls[j].arg = ExpectedMessage(important_articles)

C18_Witness ==
    /\ RunReturned
    /\ Len(articles.items) = 2
    /\ ~ClassifiedImportant(2)
    /\ important_articles =
          << [title |-> <<"T1">>, summary |-> <<"S", "1">>, url |-> <<"U1">>] >>
    /\ LastCall.op = "sendMessage"
    /\ BlockCount(LastCall.arg) = 1

\* C19: the stages of a Run are in order: the river_stories GET only after
\* a successful login POST, the language-model calls only after a
\* successful fetch, the notification POST last and only when every fetched
\* story has been classified and, if important, summarized.
C19_StageOrder ==
    /\ calls # <<>> => calls[1].op = "login"
    /\ \A j \in 1..Len(calls) :
          /\ calls[j].op = "login" => j = 1
          /\ calls[j].op = "river_stories" => (j = 2 /\ calls[1].out.kind = "ok")
          /\ calls[j].op \in LLMOps =>
                (j >= 3 /\ calls[2].op = "river_stories" /\ calls[2].out.kind = "ok")
          /\ calls[j].op = "sendMessage" =>
                /\ j = Len(calls)
                /\ \A k \in 1..Len(articles.items) :
                      /\ \E a \in 3..(j - 1) : calls[a].op = "classify" /\ calls[a].i = k
                      /\ ClassifiedImportant(k) =>
                            \E a \in 3..(j - 1) : calls[a].op = "summarize" /\ calls[a].i = k

C19_Witness ==
    /\ RunReturned
    /\ Len(calls) = 7
    /\ calls[7].op = "sendMessage"
    /\ calls[6].op = "summarize"
    /\ calls[4].op = "summarize"
====
